---- MODULE Spec2Model ----
(***************************************************************************)
(* The Terraform execution state machine of CloudShell-Terraform-Shell:    *)
(* TerraformShell.execute_terraform / destroy_terraform driving the steps  *)
(* of TfProcExec, with the two statuses persisted in the sandbox data.     *)
(* One sandbox, one workflow invocation at a time (the code is             *)
(* single-threaded and blocks on every subprocess).                        *)
(***************************************************************************)
EXTENDS Integers, Sequences, FiniteSets, TLC

\* ---- constants.py ----
EXECUTE_STATUS == "EXECUTE_STATUS"
DESTROY_STATUS == "DESTROY_STATUS"
APPLY_PASSED == "APPLY_PASSED"
APPLY_FAILED == "APPLY_FAILED"
PLAN_FAILED == "PLAN_FAILED"
INIT_FAILED == "INIT_FAILED"
DESTROY_FAILED == "DESTROY_FAILED"
DESTROY_PASSED == "DESTROY_PASSED"
NONE == "NONE"

INIT == "INIT"
PLAN == "PLAN"
APPLY == "APPLY"
OUTPUT == "OUTPUT"
DESTROY == "DESTROY"
ALLOWED_LOGGING_CMDS == {INIT, PLAN, APPLY, DESTROY}

\* the TAG step runs no Terraform command; the name is only a step label
TAG == "TAG"

\* tf_proc_exec.py:105, the tag limit of tag_terraform
TagLimit == 50

\* height of the deepest staging root above the working directory
MaxDepth == 2

\* height of the filesystem root above the working directory
RootHeight == MaxDepth + 1

\* longest text a subprocess prints
MaxLen == 4

\* ---- DIRTY_CHARS: the characters the pattern tells apart ----
\* ESC is \x1B; "A" stands for the class [@-Z\\-_], "0" for a parameter byte
\* [0-?], " " for an intermediate byte [ -/], "m" for a final byte [@-~]
\* outside [@-Z\\-_]; "[" opens a CSI and is itself a final byte; "n"
\* (a newline) is in none of the classes
ESC == "ESC"
FeBytes == {"A"}
ParameterBytes == {"0"}
IntermediateBytes == {" "}
FinalBytes == {"m", "A", "["}
Alphabet == {ESC, "[", "0", " ", "m", "A", "n"}

\* the texts of at most MaxLen characters
Texts == UNION {[1..n -> Alphabet] : n \in 0..MaxLen}

\* the calls of _run_tf_proc_with_command the steps make: command, write_to_log
Calls == {<<INIT, TRUE>>, <<PLAN, TRUE>>, <<APPLY, TRUE>>, <<DESTROY, TRUE>>, <<OUTPUT, FALSE>>}

\* every value the code ever writes to, or reads back from, the two slots
ExecuteStatuses == {NONE, APPLY_PASSED, APPLY_FAILED, PLAN_FAILED, INIT_FAILED}
DestroyStatuses == {NONE, DESTROY_PASSED, DESTROY_FAILED}

\* the "Remote State Provider" attribute of the service: missing from the
\* attributes, present with an empty value, or naming a provider
RemoteStateProviders == {"absent", "empty", "set"}

\* outcomes of check_output: exit code 0, CalledProcessError, any other failure
ProcOutcomes == {"exit0", "nonzero", "launch_error"}

VARIABLES
    execute_status,         \* sandbox data, key EXECUTE_STATUS
    destroy_status,         \* sandbox data, key DESTROY_STATUS
    tf_working_dir,         \* sandbox data, key TF_WORKING_DIR: "" or "wd"
    dir_exists,             \* os.path.isdir of the stored working directory
    staging,                \* height above the working directory of the folder holding REPO and repo.zip
    remote_state_provider,  \* the service attribute
    pc,                     \* position of the running workflow, "idle" between invocations
    workflow,               \* "none", "execute" or "destroy": the current or last invocation
    raised,                 \* the exception the last invocation raised, "none" if it returned
    failed_step,            \* the step of the workflow whose code raised it
    ran,                    \* commands handed to _run_tf_proc_with_command in this invocation
    done_steps,             \* steps of this invocation that returned normally
    live,                   \* live statuses reported in this invocation
    exec_log,               \* commands whose transcript was written to the execution log
    tagged,                 \* start_tagging_terraform_resources was called in this invocation
    walk,                   \* _delete_local_temp_dir: height of tf_path above the working directory
    walk_tick,              \* _delete_local_temp_dir: parity of the number of iterations of its loop
    start_status,           \* the two statuses when the invocation started
    applied,                \* history: some APPLY has succeeded
    teardown_failed,        \* history: a DESTROY failed after an APPLY had succeeded, none has succeeded since
    apply_attempted,        \* history: the APPLY command has been run in this sandbox, whatever its outcome
    deployed,               \* history: an APPLY has succeeded and no DESTROY has succeeded since
    logger,                 \* the execution logger of TfProcExec: "sound", or "faulty" when its writes may raise
    last_run,               \* the last call of _run_tf_proc_with_command in this invocation
    tag_inputs,             \* tag_terraform: the custom tags and the default tags it merged
    tags_dict,              \* tag_terraform: the tags handed to start_tagging_terraform_resources
    downloaded,             \* the Downloader was called in this invocation
    start_dir,              \* the stored working directory existed when the invocation started
    output,                 \* process runner on its own: the text the subprocess printed
    proc_result             \* process runner on its own: the call made and what came of it

vars == <<execute_status, destroy_status, tf_working_dir, dir_exists, staging,
          remote_state_provider, pc, workflow, raised, failed_step, ran,
          done_steps, live, exec_log, tagged, walk, walk_tick, start_status, applied,
          teardown_failed, apply_attempted, deployed, logger, last_run, tag_inputs, tags_dict, downloaded,
          start_dir, output, proc_result>>

sandbox_vars == <<execute_status, destroy_status>>
dir_vars == <<tf_working_dir, dir_exists, staging>>
hist_vars == <<applied, teardown_failed, apply_attempted, deployed>>
trace_vars == <<ran, done_steps, live, exec_log, tagged>>
env_vars == <<remote_state_provider, logger, output, proc_result>>
start_vars == <<start_status, start_dir>>
tag_vars == <<tag_inputs, tags_dict>>

\* no call of _run_tf_proc_with_command yet
NoRun == [command |-> "none", outcome |-> "none", log_write |-> "none"]

\* no call of the process runner on its own yet
NoResult == [command |-> "none", outcome |-> "none", returned |-> <<"none">>,
             raised |-> "none", detail |-> <<"none">>, log_data |-> <<"none">>]

\* no tags: tagging was skipped or has not happened
NoTags == <<>>

\* what a write to the execution log may do, given the logger
LogWrites == IF logger = "faulty" THEN {"ok", "raises"} ELSE {"ok"}

\* can_execute_run without the check of line 173
CanExecuteRun_NoTeardownCheck(execute, destroy) ==
    IF execute \in {APPLY_FAILED} THEN FALSE ELSE TRUE

\* can_destroy_run accepting only a passed apply
CanDestroyRun_OnlyPassed(execute) ==
    IF execute \notin {APPLY_PASSED} THEN FALSE ELSE TRUE

\* can_execute_run refusing after any failed step
CanExecuteRun_AnyFailure(execute, destroy) ==
    IF execute \in {APPLY_FAILED, INIT_FAILED, PLAN_FAILED} THEN FALSE
    ELSE IF destroy \in {DESTROY_FAILED} /\ execute = APPLY_PASSED THEN FALSE
    ELSE TRUE

\* can_destroy_run accepting any status a step has written
CanDestroyRun_AnyWrittenStatus(execute) ==
    IF execute \notin {APPLY_PASSED, APPLY_FAILED, INIT_FAILED, PLAN_FAILED} THEN FALSE ELSE TRUE

\* ---- TfProcExec.can_execute_run / can_destroy_run ----
CanExecuteRun(execute, destroy) ==
    IF execute \in {APPLY_FAILED} THEN FALSE
    ELSE IF destroy \in {DESTROY_FAILED} /\ execute = APPLY_PASSED THEN FALSE
    ELSE TRUE

CanDestroyRun(execute) ==
    IF execute \notin {APPLY_PASSED, APPLY_FAILED} THEN FALSE ELSE TRUE

\* the success path writing the transcript whatever write_to_log says
RunTfProcLogs_AlwaysOnSuccess(outcome, command, write_to_log) ==
    CASE outcome = "exit0" -> TRUE
      [] outcome = "nonzero" -> command \in ALLOWED_LOGGING_CMDS
      [] OTHER -> FALSE

\* ---- TfProcExec._run_tf_proc_with_command ----
\* the exception it raises for an outcome of the subprocess ("none": it returns the output)
RunTfProcRaises(outcome) ==
    IF outcome = "exit0" THEN "none" ELSE "TerraformExecutionError"

\* whether it writes the transcript of the command to the execution log
RunTfProcLogs(outcome, command, write_to_log) ==
    CASE outcome = "exit0" -> write_to_log
      [] outcome = "nonzero" -> command \in ALLOWED_LOGGING_CMDS
      [] OTHER -> FALSE

\* the exception the call raises when its write to the execution log may raise
\* too: on the success path the write is inside the try block and the
\* "except Exception" clause turns its exception into TerraformExecutionError;
\* in the CalledProcessError handler the exception of the write propagates
RunTfProc(outcome, command, write_to_log, log_write) ==
    IF RunTfProcLogs(outcome, command, write_to_log) /\ log_write = "raises"
    THEN IF outcome = "exit0" THEN "TerraformExecutionError" ELSE "LogError"
    ELSE RunTfProcRaises(outcome)

LogAfter(log, outcome, command, write_to_log, log_write) ==
    IF RunTfProcLogs(outcome, command, write_to_log) /\ log_write = "ok"
    THEN Append(log, command)
    ELSE log

\* the record of the call kept for the properties
RunOf(outcome, command, write_to_log, log_write) ==
    [command |-> command, outcome |-> outcome,
     log_write |-> IF RunTfProcLogs(outcome, command, write_to_log) THEN log_write ELSE "none"]

\* ---- DIRTY_CHARS matched at one position of a text ----
RECURSIVE SkipBytes(_, _, _)
\* the first position from j on whose character is not in the class
SkipBytes(text, j, class) ==
    IF j <= Len(text) /\ text[j] \in class THEN SkipBytes(text, j + 1, class) ELSE j

\* position of the final byte of "[ parameters intermediates final" starting at j
CsiFinal(text, j) ==
    SkipBytes(text, SkipBytes(text, j + 1, ParameterBytes), IntermediateBytes)

\* number of characters the pattern matches at position i, 0 when it does not match
MatchLen(text, i) ==
    IF text[i] # ESC \/ i + 1 > Len(text) THEN 0
    ELSE IF text[i + 1] \in FeBytes THEN 2
    ELSE IF text[i + 1] = "[" /\ CsiFinal(text, i + 1) <= Len(text)
                             /\ text[CsiFinal(text, i + 1)] \in FinalBytes
         THEN CsiFinal(text, i + 1) - i + 1
    ELSE 0

\* ---- StringCleaner.get_clean_string: every match, left to right, replaced by nothing ----
RECURSIVE CleanFrom(_, _)
CleanFrom(text, i) ==
    IF i > Len(text) THEN <<>>
    ELSE IF MatchLen(text, i) > 0 THEN CleanFrom(text, i + MatchLen(text, i))
    ELSE <<text[i]>> \o CleanFrom(text, i + 1)

Clean(text) == CleanFrom(text, 1)

\* the error detail left unsanitized
RunTfProcDetail_Raw(outcome, text) ==
    IF outcome = "nonzero" THEN text ELSE <<"none">>

\* ---- TfProcExec._run_tf_proc_with_command: what it does with the text ----
\* line 193: the captured output is returned as it was printed
RunTfProcReturns(outcome, text) ==
    IF outcome = "exit0" THEN text ELSE <<"none">>

\* lines 196 and 202-203: the second argument of TerraformExecutionError
RunTfProcDetail(outcome, text) ==
    IF outcome = "nonzero" THEN Clean(text) ELSE <<"none">>

\* lines 190-192, 196-201 and 210: the cleaned output, cleaned again by _write_to_exec_log
RunTfProcLogData(outcome, command, write_to_log, text) ==
    IF RunTfProcLogs(outcome, command, write_to_log) THEN Clean(Clean(text)) ELSE <<"none">>

\* ---- TerraformShell helpers ----
DoesWorkingDirExists == tf_working_dir # "" /\ dir_exists

\* Path(tf_path.parent.absolute()): the parent of the root is the root
ParentOf(height) == IF height < RootHeight THEN height + 1 ELSE height

UsingRemoteState == remote_state_provider = "set"

DestroyPassed(destroy) == destroy = DESTROY_PASSED

\* the workflow returns to its caller
Return ==
    /\ pc' = "idle"
    /\ raised' = "none"
    /\ failed_step' = "none"

\* an exception leaves the workflow from the given step
Raise(exception, step) ==
    /\ pc' = "idle"
    /\ raised' = exception
    /\ failed_step' = step

Goto(label) ==
    /\ pc' = label
    /\ UNCHANGED <<raised, failed_step>>

Init ==
    /\ execute_status = NONE
    /\ destroy_status = NONE
    /\ tf_working_dir = ""
    /\ dir_exists = FALSE
    /\ staging = 0
    /\ remote_state_provider \in RemoteStateProviders
    /\ pc = "idle"
    /\ workflow = "none"
    /\ raised = "none"
    /\ failed_step = "none"
    /\ ran = <<>>
    /\ done_steps = <<>>
    /\ live = <<>>
    /\ exec_log = <<>>
    /\ tagged = FALSE
    /\ walk = 0
    /\ walk_tick = FALSE
    /\ start_status = <<NONE, NONE>>
    /\ applied = FALSE
    /\ teardown_failed = FALSE
    /\ apply_attempted = FALSE
    /\ deployed = FALSE
    /\ logger = "sound"
    /\ last_run = NoRun
    /\ tag_inputs = NoTags
    /\ tags_dict = NoTags
    /\ downloaded = FALSE
    /\ start_dir = FALSE
    /\ output = <<>>
    /\ proc_result = NoResult

\* ---- TerraformShell.execute_terraform / destroy_terraform: entry ----
StartWorkflow(kind, label) ==
    /\ pc = "idle"
    /\ pc' = label
    /\ workflow' = kind
    /\ raised' = "none"
    /\ failed_step' = "none"
    /\ ran' = <<>>
    /\ done_steps' = <<>>
    /\ live' = <<>>
    /\ exec_log' = <<>>
    /\ tagged' = FALSE
    /\ walk' = 0
    /\ walk_tick' = FALSE
    /\ start_status' = <<execute_status, destroy_status>>
    /\ last_run' = NoRun
    /\ tag_inputs' = NoTags
    /\ tags_dict' = NoTags
    /\ downloaded' = FALSE
    /\ start_dir' = DoesWorkingDirExists
    /\ UNCHANGED <<sandbox_vars, dir_vars, env_vars, hist_vars>>

StartExecute == StartWorkflow("execute", "e_prepare")

StartDestroy == StartWorkflow("destroy", "d_validate")

\* destroy_terraform without the validation of line 68
ValidateRemoteBackendOrExistingWorkingDir_Skipped ==
    /\ pc = "d_validate"
    /\ Goto("d_prepare")
    /\ UNCHANGED <<sandbox_vars, dir_vars, env_vars, workflow, trace_vars,
                   walk, walk_tick, start_vars, hist_vars, last_run, tag_vars, downloaded>>

\* ---- TerraformShell._validate_remote_backend_or_existing_working_dir ----
ValidateRemoteBackendOrExistingWorkingDir ==
    /\ pc = "d_validate"
    /\ IF ~UsingRemoteState /\ ~DoesWorkingDirExists
       THEN Raise("ValueError", "validate")
       ELSE Goto("d_prepare")
    /\ UNCHANGED <<sandbox_vars, dir_vars, env_vars, workflow, trace_vars,
                   walk, walk_tick, start_vars, hist_vars, last_run, tag_vars, downloaded>>

\* ---- TerraformShell._prepare_tf_working_dir ----
\* downloads the module and the executable when the stored directory is missing
PrepareTfWorkingDir(here, next) ==
    /\ pc = here
    /\ IF ~DoesWorkingDirExists
       THEN \E download \in {"ok", "raise"}, depth \in 1..MaxDepth :
              IF download = "ok"
              THEN /\ tf_working_dir' = "wd"
                   /\ dir_exists' = TRUE
                   /\ staging' = depth
                   /\ downloaded' = TRUE
                   /\ Goto(next)
              ELSE /\ UNCHANGED dir_vars
                   /\ downloaded' = TRUE
                   /\ Raise("DownloadError", "prepare")
       ELSE /\ UNCHANGED <<dir_vars, downloaded>>
            /\ Goto(next)
    /\ UNCHANGED <<sandbox_vars, env_vars, workflow, trace_vars, walk, walk_tick,
                   start_vars, hist_vars, last_run, tag_vars>>

ExecutePrepare == PrepareTfWorkingDir("e_prepare", "e_gate")

DestroyPrepare == PrepareTfWorkingDir("d_prepare", "d_gate")

\* destroy_terraform that runs without asking can_destroy_run
DestroyGate_Open ==
    /\ pc = "d_gate"
    /\ Goto("d_init")
    /\ UNCHANGED <<sandbox_vars, dir_vars, env_vars, workflow, trace_vars,
                   walk, walk_tick, start_vars, hist_vars, last_run, tag_vars, downloaded>>

\* execute_terraform that runs without asking can_execute_run
ExecuteGate_Open ==
    /\ pc = "e_gate"
    /\ Goto("e_init")
    /\ UNCHANGED <<sandbox_vars, dir_vars, env_vars, workflow, trace_vars,
                   walk, walk_tick, start_vars, hist_vars, last_run, tag_vars, downloaded>>

\* ---- execute_terraform: if tf_proc_executer.can_execute_run() ... else raise ----
ExecuteGate ==
    /\ pc = "e_gate"
    /\ IF CanExecuteRun(execute_status, destroy_status)
       THEN Goto("e_init")
       ELSE Raise("Exception", "gate")
    /\ UNCHANGED <<sandbox_vars, dir_vars, env_vars, workflow, trace_vars,
                   walk, walk_tick, start_vars, hist_vars, last_run, tag_vars, downloaded>>

\* ---- destroy_terraform: if tf_proc_executer.can_destroy_run() ... else raise ----
DestroyGate ==
    /\ pc = "d_gate"
    /\ IF CanDestroyRun(execute_status)
       THEN Goto("d_init")
       ELSE Raise("Exception", "gate")
    /\ UNCHANGED <<sandbox_vars, dir_vars, env_vars, workflow, trace_vars,
                   walk, walk_tick, start_vars, hist_vars, last_run, tag_vars, downloaded>>

\* a step whose except branch does not re-raise
StepExit_Swallow(exception, step, next) ==
    IF exception = "none"
    THEN /\ done_steps' = Append(done_steps, step)
         /\ Goto(next)
    ELSE /\ UNCHANGED done_steps
         /\ Goto(next)

\* ---- the try/except of a step: how the step leaves, given what the command run raised ----
\* init_terraform 42-49, plan_terraform 129-136, apply_terraform 143-151,
\* destroy_terraform 66-75, save_terraform_outputs 154-166: "except ...: ...; raise"
StepExit(exception, step, next) ==
    IF exception = "none"
    THEN /\ done_steps' = Append(done_steps, step)
         /\ Goto(next)
    ELSE /\ UNCHANGED done_steps
         /\ Raise(exception, step)

\* init_terraform writing the failure of another step
ExecuteStatusAfterInit_WrongValue(exception, current) ==
    IF exception = "none" THEN current ELSE DESTROY_FAILED

\* apply_terraform with the two set_status calls exchanged
ExecuteStatusAfterApply_Swapped(exception) ==
    IF exception = "none" THEN APPLY_FAILED ELSE APPLY_PASSED

\* apply_terraform whose except branch writes the status of the plan step
ExecuteStatusAfterApply_PlanFailed(exception) ==
    IF exception = "none" THEN APPLY_PASSED ELSE PLAN_FAILED

\* destroy_terraform whose except branch writes no status
DestroyStatusAfterDestroy_Unset(exception) ==
    IF exception = "none" THEN DESTROY_PASSED ELSE destroy_status

\* ---- the values the steps write to the sandbox data ----
\* init_terraform line 47: written only in the except branch
ExecuteStatusAfterInit(exception, current) ==
    IF exception = "none" THEN current ELSE INIT_FAILED

\* plan_terraform line 134: written only in the except branch
ExecuteStatusAfterPlan(exception, current) ==
    IF exception = "none" THEN current ELSE PLAN_FAILED

\* apply_terraform lines 146 and 149
ExecuteStatusAfterApply(exception) ==
    IF exception = "none" THEN APPLY_PASSED ELSE APPLY_FAILED

\* destroy_terraform lines 69 and 73
DestroyStatusAfterDestroy(exception) ==
    IF exception = "none" THEN DESTROY_PASSED ELSE DESTROY_FAILED

\* ---- the live statuses a step reports: _set_service_status calls in its try and except ----
LiveAfter(exception, before, passed) ==
    IF exception = "none" THEN <<before, passed>> ELSE <<before, "Error">>

\* ---- TfProcExec._init_backend_config followed by line 40 of init_terraform ----
\* "" (attribute absent) and None (attribute empty) have no keys(): AttributeError
\* before the try block is entered
BackendConfigRaises(provider) ==
    IF provider = "set" THEN "none" ELSE "AttributeError"

\* ---- TfProcExec.init_terraform ----
InitTerraform(here, next) ==
    /\ pc = here
    /\ IF BackendConfigRaises(remote_state_provider) # "none"
       THEN /\ Raise(BackendConfigRaises(remote_state_provider), INIT)
            /\ UNCHANGED <<sandbox_vars, trace_vars, last_run>>
       ELSE \E outcome \in ProcOutcomes, log_write \in LogWrites :
              /\ ran' = Append(ran, INIT)
              /\ exec_log' = LogAfter(exec_log, outcome, INIT, TRUE, log_write)
              /\ last_run' = RunOf(outcome, INIT, TRUE, log_write)
              /\ live' = live \o LiveAfter(RunTfProc(outcome, INIT, TRUE, log_write), "Progress 10", "Progress 30")
              /\ execute_status' = ExecuteStatusAfterInit(RunTfProc(outcome, INIT, TRUE, log_write), execute_status)
              /\ StepExit(RunTfProc(outcome, INIT, TRUE, log_write), INIT, next)
              /\ UNCHANGED <<destroy_status, tagged>>
    /\ UNCHANGED <<dir_vars, env_vars, workflow, walk, walk_tick, start_vars, hist_vars,
                   tag_vars, downloaded>>

ExecuteInit == InitTerraform("e_init", "e_tag")

DestroyInit == InitTerraform("d_init", "d_destroy")

\* the custom tags winning a collision
MergeTags_CustomWins(custom, default) ==
    [k \in (DOMAIN custom) \cup (DOMAIN default) |->
        IF k \in DOMAIN custom THEN custom[k] ELSE default[k]]

\* ---- tag_terraform line 103: {**custom_tags_inputs, **default_tags_dict} ----
MergeTags(custom, default) ==
    [k \in (DOMAIN custom) \cup (DOMAIN default) |->
        IF k \in DOMAIN default THEN default[k] ELSE custom[k]]

\* the custom tags of the service: TagLimit - 2 or TagLimit - 1 of them, keys 1, 2, ...
CustomTagInputs == {[k \in 1..n |-> "custom"] : n \in {TagLimit - 2, TagLimit - 1}}

\* the default tags: keys TagLimit - 1 up to TagLimit or TagLimit + 1, so that
\* the merge has TagLimit or TagLimit + 1 keys, with and without a collision
DefaultTagInputs == {[k \in (TagLimit - 1)..n |-> "default"] : n \in {TagLimit, TagLimit + 1}}

\* ---- TfProcExec.tag_terraform ----
\* no try/except: an exception leaves without a status and without a live status
TagTerraform ==
    /\ pc = "e_tag"
    /\ \E apply_tag \in BOOLEAN, custom \in CustomTagInputs, default \in DefaultTagInputs,
          tagging \in {"ok", "raise"} :
         IF ~apply_tag
         THEN /\ UNCHANGED <<tagged, tag_vars>>
              /\ StepExit("none", TAG, "e_plan")
         ELSE /\ tag_inputs' = <<custom, default>>
              /\ IF Cardinality(DOMAIN MergeTags(custom, default)) > TagLimit
                 THEN /\ UNCHANGED <<tagged, tags_dict>>
                      /\ StepExit("ValueError", TAG, "e_plan")
                 ELSE /\ tagged' = TRUE
                      /\ tags_dict' = MergeTags(custom, default)
                      /\ StepExit(IF tagging = "ok" THEN "none" ELSE "TaggingError", TAG, "e_plan")
    /\ UNCHANGED <<sandbox_vars, dir_vars, env_vars, workflow, ran, live,
                   exec_log, walk, walk_tick, start_vars, hist_vars, last_run, downloaded>>

\* ---- TfProcExec.plan_terraform ----
PlanTerraform ==
    /\ pc = "e_plan"
    /\ \E outcome \in ProcOutcomes, log_write \in LogWrites :
         /\ ran' = Append(ran, PLAN)
         /\ exec_log' = LogAfter(exec_log, outcome, PLAN, TRUE, log_write)
         /\ last_run' = RunOf(outcome, PLAN, TRUE, log_write)
         /\ live' = live \o LiveAfter(RunTfProc(outcome, PLAN, TRUE, log_write), "Progress 40", "Progress 60")
         /\ execute_status' = ExecuteStatusAfterPlan(RunTfProc(outcome, PLAN, TRUE, log_write), execute_status)
         /\ StepExit(RunTfProc(outcome, PLAN, TRUE, log_write), PLAN, "e_apply")
    /\ UNCHANGED <<destroy_status, dir_vars, env_vars, workflow, tagged, walk, walk_tick,
                   start_vars, hist_vars, tag_vars, downloaded>>

\* ---- TfProcExec.apply_terraform ----
ApplyTerraform ==
    /\ pc = "e_apply"
    /\ \E outcome \in ProcOutcomes, log_write \in LogWrites :
         /\ ran' = Append(ran, APPLY)
         /\ exec_log' = LogAfter(exec_log, outcome, APPLY, TRUE, log_write)
         /\ last_run' = RunOf(outcome, APPLY, TRUE, log_write)
         /\ live' = live \o LiveAfter(RunTfProc(outcome, APPLY, TRUE, log_write), "Progress 70", "Online")
         /\ execute_status' = ExecuteStatusAfterApply(RunTfProc(outcome, APPLY, TRUE, log_write))
         /\ applied' = (applied \/ RunTfProc(outcome, APPLY, TRUE, log_write) = "none")
         /\ apply_attempted' = TRUE
         /\ deployed' = (deployed \/ RunTfProc(outcome, APPLY, TRUE, log_write) = "none")
         /\ StepExit(RunTfProc(outcome, APPLY, TRUE, log_write), APPLY, "e_output")
    /\ UNCHANGED <<destroy_status, dir_vars, env_vars, workflow, tagged, walk, walk_tick,
                   start_vars, teardown_failed, tag_vars, downloaded>>

\* ---- TfProcExec.save_terraform_outputs ----
\* the except branch only logs and re-raises
OutputsRaise(outcome, json, save) ==
    CASE RunTfProcRaises(outcome) # "none" -> RunTfProcRaises(outcome)
      [] json = "malformed" -> "JSONDecodeError"
      [] save = "raise" -> "OutputsError"
      [] OTHER -> "none"

SaveTerraformOutputs ==
    /\ pc = "e_output"
    /\ \E outcome \in ProcOutcomes, log_write \in LogWrites, json \in {"valid", "malformed"}, save \in {"ok", "raise"} :
         /\ ran' = Append(ran, OUTPUT)
         /\ exec_log' = LogAfter(exec_log, outcome, OUTPUT, FALSE, log_write)
         /\ last_run' = RunOf(outcome, OUTPUT, FALSE, log_write)
         /\ StepExit(OutputsRaise(outcome, json, save), OUTPUT, "e_cleanup")
    /\ UNCHANGED <<sandbox_vars, dir_vars, env_vars, workflow, live, tagged,
                   walk, walk_tick, start_vars, hist_vars, tag_vars, downloaded>>

\* ---- execute_terraform lines 54-55 ----
ExecuteCleanup ==
    /\ pc = "e_cleanup"
    /\ IF UsingRemoteState THEN Goto("walk") ELSE Return
    /\ UNCHANGED <<sandbox_vars, dir_vars, env_vars, workflow, trace_vars,
                   walk, walk_tick, start_vars, hist_vars, last_run, tag_vars, downloaded>>

\* ---- TfProcExec.destroy_terraform ----
DestroyTerraform ==
    /\ pc = "d_destroy"
    /\ \E outcome \in ProcOutcomes, log_write \in LogWrites :
         /\ ran' = Append(ran, DESTROY)
         /\ exec_log' = LogAfter(exec_log, outcome, DESTROY, TRUE, log_write)
         /\ last_run' = RunOf(outcome, DESTROY, TRUE, log_write)
         /\ live' = live \o LiveAfter(RunTfProc(outcome, DESTROY, TRUE, log_write), "Progress 50", "Offline")
         /\ destroy_status' = DestroyStatusAfterDestroy(RunTfProc(outcome, DESTROY, TRUE, log_write))
         /\ teardown_failed' = (RunTfProc(outcome, DESTROY, TRUE, log_write) # "none" /\ applied)
         /\ deployed' = (deployed /\ RunTfProc(outcome, DESTROY, TRUE, log_write) # "none")
         /\ StepExit(RunTfProc(outcome, DESTROY, TRUE, log_write), DESTROY, "d_cleanup")
    /\ UNCHANGED <<execute_status, dir_vars, env_vars, workflow, tagged, walk, walk_tick,
                   start_vars, applied, apply_attempted, tag_vars, downloaded>>

\* ---- destroy_terraform lines 78-79 ----
DestroyCleanup ==
    /\ pc = "d_cleanup"
    /\ IF UsingRemoteState \/ DestroyPassed(destroy_status) THEN Goto("walk") ELSE Return
    /\ UNCHANGED <<sandbox_vars, dir_vars, env_vars, workflow, trace_vars,
                   walk, walk_tick, start_vars, hist_vars, last_run, tag_vars, downloaded>>

\* ---- TerraformShell._delete_local_temp_dir ----
\* one iteration of the while loop; the last one is followed by rmtree and
\* set_tf_working_dir("")
DeleteLocalTempDir ==
    /\ pc = "walk"
    /\ walk' = ParentOf(walk)
    /\ walk_tick' = ~walk_tick
    /\ IF ParentOf(walk) = staging
       THEN /\ tf_working_dir' = ""
            /\ dir_exists' = FALSE
            /\ staging' = 0
            /\ Return
       ELSE /\ UNCHANGED dir_vars
            /\ Goto("walk")
    /\ UNCHANGED <<sandbox_vars, env_vars, workflow, trace_vars, start_vars,
                   hist_vars, last_run, tag_vars, downloaded>>

Next ==
    \/ StartExecute
    \/ ExecutePrepare
    \/ ExecuteGate
    \/ ExecuteInit
    \/ TagTerraform
    \/ PlanTerraform
    \/ ApplyTerraform
    \/ SaveTerraformOutputs
    \/ ExecuteCleanup
    \/ StartDestroy
    \/ ValidateRemoteBackendOrExistingWorkingDir
    \/ DestroyPrepare
    \/ DestroyGate
    \/ DestroyInit
    \/ DestroyTerraform
    \/ DestroyCleanup
    \/ DeleteLocalTempDir

Spec == Init /\ [][Next]_vars

\* the same program started on a sandbox whose data already holds any pair of
\* statuses (the statuses outlive the driver process)
InitAny ==
    /\ execute_status \in ExecuteStatuses
    /\ destroy_status \in DestroyStatuses
    /\ tf_working_dir = ""
    /\ dir_exists = FALSE
    /\ staging = 0
    /\ remote_state_provider \in RemoteStateProviders
    /\ pc = "idle"
    /\ workflow = "none"
    /\ raised = "none"
    /\ failed_step = "none"
    /\ ran = <<>>
    /\ done_steps = <<>>
    /\ live = <<>>
    /\ exec_log = <<>>
    /\ tagged = FALSE
    /\ walk = 0
    /\ walk_tick = FALSE
    /\ start_status = <<execute_status, destroy_status>>
    /\ applied = FALSE
    /\ teardown_failed = FALSE
    /\ apply_attempted = FALSE
    /\ deployed = FALSE
    /\ logger = "sound"
    /\ last_run = NoRun
    /\ tag_inputs = NoTags
    /\ tags_dict = NoTags
    /\ downloaded = FALSE
    /\ start_dir = FALSE
    /\ output = <<>>
    /\ proc_result = NoResult

SpecAny == InitAny /\ [][Next]_vars

\* ---- the process runner on its own: one call of _run_tf_proc_with_command ----
\* on any text the subprocess may print
InitRunner ==
    /\ execute_status = NONE
    /\ destroy_status = NONE
    /\ tf_working_dir = ""
    /\ dir_exists = FALSE
    /\ staging = 0
    /\ remote_state_provider = "set"
    /\ pc = "idle"
    /\ workflow = "none"
    /\ raised = "none"
    /\ failed_step = "none"
    /\ ran = <<>>
    /\ done_steps = <<>>
    /\ live = <<>>
    /\ exec_log = <<>>
    /\ tagged = FALSE
    /\ walk = 0
    /\ walk_tick = FALSE
    /\ start_status = <<NONE, NONE>>
    /\ applied = FALSE
    /\ teardown_failed = FALSE
    /\ apply_attempted = FALSE
    /\ deployed = FALSE
    /\ logger = "sound"
    /\ last_run = NoRun
    /\ tag_inputs = NoTags
    /\ tags_dict = NoTags
    /\ downloaded = FALSE
    /\ start_dir = FALSE
    /\ output \in Texts
    /\ proc_result = NoResult

RunTfProcWithCommand ==
    /\ proc_result = NoResult
    /\ \E call \in Calls, outcome \in ProcOutcomes :
         proc_result' = [command |-> call[1],
                         outcome |-> outcome,
                         returned |-> RunTfProcReturns(outcome, output),
                         raised |-> RunTfProc(outcome, call[1], call[2], "ok"),
                         detail |-> RunTfProcDetail(outcome, output),
                         log_data |-> RunTfProcLogData(outcome, call[1], call[2], output)]
    /\ UNCHANGED <<sandbox_vars, dir_vars, remote_state_provider, logger, output,
                   pc, workflow, raised, failed_step, trace_vars, walk, walk_tick,
                   start_vars, hist_vars, last_run, tag_vars, downloaded>>

NextRunner == RunTfProcWithCommand

SpecRunner == InitRunner /\ [][NextRunner]_vars

\* the same program with an execution logger whose writes may raise
InitLogFault ==
    /\ execute_status = NONE
    /\ destroy_status = NONE
    /\ tf_working_dir = ""
    /\ dir_exists = FALSE
    /\ staging = 0
    /\ remote_state_provider \in RemoteStateProviders
    /\ pc = "idle"
    /\ workflow = "none"
    /\ raised = "none"
    /\ failed_step = "none"
    /\ ran = <<>>
    /\ done_steps = <<>>
    /\ live = <<>>
    /\ exec_log = <<>>
    /\ tagged = FALSE
    /\ walk = 0
    /\ walk_tick = FALSE
    /\ start_status = <<NONE, NONE>>
    /\ applied = FALSE
    /\ teardown_failed = FALSE
    /\ apply_attempted = FALSE
    /\ deployed = FALSE
    /\ logger = "faulty"
    /\ last_run = NoRun
    /\ tag_inputs = NoTags
    /\ tags_dict = NoTags
    /\ downloaded = FALSE
    /\ start_dir = FALSE
    /\ output = <<>>
    /\ proc_result = NoResult

SpecLogFault == InitLogFault /\ [][Next]_vars

\* the same program started on a sandbox whose data already holds a working
\* directory path: the directory may be gone, and when it is there it may have
\* no ancestor holding exactly REPO and repo.zip (staging = 0); the loop of
\* _delete_local_temp_dir is sequential code, so it keeps being scheduled
InitAnyDir ==
    /\ execute_status = NONE
    /\ destroy_status = NONE
    /\ tf_working_dir \in {"", "wd"}
    /\ dir_exists \in BOOLEAN
    /\ staging \in 0..MaxDepth
    /\ dir_exists => tf_working_dir = "wd"
    /\ staging > 0 => dir_exists
    /\ remote_state_provider \in RemoteStateProviders
    /\ pc = "idle"
    /\ workflow = "none"
    /\ raised = "none"
    /\ failed_step = "none"
    /\ ran = <<>>
    /\ done_steps = <<>>
    /\ live = <<>>
    /\ exec_log = <<>>
    /\ tagged = FALSE
    /\ walk = 0
    /\ walk_tick = FALSE
    /\ start_status = <<NONE, NONE>>
    /\ applied = FALSE
    /\ teardown_failed = FALSE
    /\ apply_attempted = FALSE
    /\ deployed = FALSE
    /\ logger = "sound"
    /\ last_run = NoRun
    /\ tag_inputs = NoTags
    /\ tags_dict = NoTags
    /\ downloaded = FALSE
    /\ start_dir = FALSE
    /\ output = <<>>
    /\ proc_result = NoResult

SpecAnyDir == InitAnyDir /\ [][Next]_vars /\ WF_vars(DeleteLocalTempDir)

TypeOK ==
    /\ execute_status \in ExecuteStatuses
    /\ destroy_status \in DestroyStatuses
    /\ tf_working_dir \in {"", "wd"}
    /\ dir_exists \in BOOLEAN
    /\ staging \in 0..MaxDepth
    /\ walk \in 0..RootHeight
    /\ walk_tick \in BOOLEAN
    /\ workflow \in {"none", "execute", "destroy"}
    /\ applied \in BOOLEAN
    /\ teardown_failed \in BOOLEAN
    /\ apply_attempted \in BOOLEAN
    /\ deployed \in BOOLEAN

\* ---- helpers of the properties ----
Last(s) == s[Len(s)]

Range(s) == {s[i] : i \in 1..Len(s)}

IsPrefix(s, t) == Len(s) <= Len(t) /\ \A i \in 1..Len(s) : s[i] = t[i]

\* the steps that come before a step in a sequence of steps
Before(step, steps) ==
    {steps[j] : j \in {k \in 1..Len(steps) : \E i \in (k + 1)..Len(steps) : steps[i] = step}}

ExecuteSteps == <<INIT, TAG, PLAN, APPLY, OUTPUT>>
ExecuteCommands == <<INIT, PLAN, APPLY, OUTPUT>>
DestroySteps == <<INIT, DESTROY>>

Ended == pc = "idle" /\ workflow # "none"

\* the pairs (execution status, destroy status) for which an execute cycle is refused
RefusedPairs ==
    {<<APPLY_FAILED, d>> : d \in DestroyStatuses} \cup {<<APPLY_PASSED, DESTROY_FAILED>>}

\* C1: can_execute_run is false for execution status APPLY_FAILED, false for
\* APPLY_PASSED with destroy status DESTROY_FAILED, and true for every other
\* pair of statuses; the execute workflow is refused exactly for those pairs.
C1_CanExecuteTruthTable ==
    /\ CanExecuteRun(execute_status, destroy_status)
         = (<<execute_status, destroy_status>> \notin RefusedPairs)
    /\ (workflow = "execute" /\ failed_step = "gate") => start_status \in RefusedPairs
    /\ (workflow = "execute" /\ pc = "e_init") => start_status \notin RefusedPairs

C1_Witness ==
    /\ workflow = "execute"
    /\ failed_step = "gate"
    /\ start_status = <<APPLY_PASSED, DESTROY_FAILED>>

\* C2: can_destroy_run is true exactly when the execution status is
\* APPLY_PASSED or APPLY_FAILED, whatever the destroy status; the destroy
\* workflow passes its gate exactly for those execution statuses.
C2_CanDestroyTruthTable ==
    /\ CanDestroyRun(execute_status) = (execute_status \in {APPLY_PASSED, APPLY_FAILED})
    /\ (workflow = "destroy" /\ failed_step = "gate")
         => start_status[1] \notin {APPLY_PASSED, APPLY_FAILED}
    /\ (workflow = "destroy" /\ pc = "d_init")
         => start_status[1] \in {APPLY_PASSED, APPLY_FAILED}

C2_Witness ==
    /\ workflow = "destroy"
    /\ pc = "d_init"
    /\ start_status = <<APPLY_FAILED, DESTROY_FAILED>>

\* C3: an execute workflow started with statuses NONE/NONE in which INIT,
\* PLAN, APPLY and OUTPUT succeed and tagging is skipped has execution status
\* APPLY_PASSED and the destroy status it started with.
C3_ExecuteAllPass ==
    (/\ workflow = "execute"
     /\ start_status = <<NONE, NONE>>
     /\ done_steps = ExecuteSteps
     /\ ~tagged)
    => (execute_status = APPLY_PASSED /\ destroy_status = start_status[2])

C3_Witness ==
    /\ Ended
    /\ raised = "none"
    /\ workflow = "execute"
    /\ start_status = <<NONE, NONE>>
    /\ done_steps = ExecuteSteps
    /\ ~tagged
    /\ execute_status = APPLY_PASSED

\* C4: an execute workflow whose INIT and PLAN succeeded and whose APPLY run
\* failed has ended with execution status APPLY_FAILED, has not run OUTPUT,
\* and has raised the execution error.
C4_ApplyFailure ==
    (/\ workflow = "execute"
     /\ APPLY \in Range(ran)
     /\ APPLY \notin Range(done_steps))
    => (/\ pc = "idle"
        /\ execute_status = APPLY_FAILED
        /\ OUTPUT \notin Range(ran)
        /\ raised = "TerraformExecutionError"
        /\ failed_step = APPLY)

\* the transcript of APPLY in the log of a failed APPLY: the subprocess exited non-zero
C4_Witness ==
    /\ Ended
    /\ workflow = "execute"
    /\ done_steps = <<INIT, TAG, PLAN>>
    /\ ~tagged
    /\ failed_step = APPLY
    /\ exec_log = <<INIT, PLAN, APPLY>>
    /\ execute_status = APPLY_FAILED

\* C5: a destroy workflow started with execution status NONE runs no
\* Terraform command, leaves both statuses as they were, and ends by raising.
C5_DestroyBlocked ==
    (workflow = "destroy" /\ start_status[1] = NONE)
    => (/\ ran = <<>>
        /\ <<execute_status, destroy_status>> = start_status
        /\ (pc = "idle" => raised # "none"))

C5_Witness ==
    /\ Ended
    /\ workflow = "destroy"
    /\ start_status[1] = NONE
    /\ failed_step = "gate"
    /\ raised = "Exception"

\* C6: once an APPLY has succeeded and a later DESTROY has failed, no execute
\* workflow runs a Terraform command until a DESTROY has succeeded.
C6_NoExecuteAfterFailedTeardown ==
    (teardown_failed /\ workflow = "execute") => ran = <<>>

\* C7 as stated: the execution status is one of NONE, APPLY_PASSED,
\* APPLY_FAILED and the destroy status one of NONE, DESTROY_PASSED, DESTROY_FAILED.
C7_StatusDomainsAsStated ==
    /\ execute_status \in {NONE, APPLY_PASSED, APPLY_FAILED}
    /\ destroy_status \in {NONE, DESTROY_PASSED, DESTROY_FAILED}

\* C7 amended: the execution status is one of NONE, APPLY_PASSED,
\* APPLY_FAILED, INIT_FAILED, PLAN_FAILED and the destroy status one of NONE,
\* DESTROY_PASSED, DESTROY_FAILED.
C7_StatusDomains ==
    /\ execute_status \in {NONE, APPLY_PASSED, APPLY_FAILED, INIT_FAILED, PLAN_FAILED}
    /\ destroy_status \in {NONE, DESTROY_PASSED, DESTROY_FAILED}

C7_Witness ==
    /\ execute_status = PLAN_FAILED
    /\ destroy_status = DESTROY_FAILED
    /\ failed_step = PLAN

\* C8: when a step INIT, TAG, PLAN, APPLY, OUTPUT or DESTROY has failed, a
\* failure status is persisted and the last live status reported is "Error"
\* when the error reaches the caller.
C8_EveryFailureFinalized ==
    (Ended /\ failed_step \in {INIT, TAG, PLAN, APPLY, OUTPUT, DESTROY})
    => (/\ live # <<>>
        /\ Last(live) = "Error"
        /\ \/ execute_status \in {INIT_FAILED, PLAN_FAILED, APPLY_FAILED}
           \/ destroy_status = DESTROY_FAILED)

\* C9: the commands of an invocation are run in the order INIT, PLAN, APPLY,
\* OUTPUT (execute) or INIT, DESTROY (destroy), each at most once, and a
\* command is run only when every earlier step of the invocation has succeeded.
C9_StrictLinearSequence ==
    /\ workflow = "execute" =>
         /\ IsPrefix(ran, ExecuteCommands)
         /\ \A i \in 1..Len(ran) : Before(ran[i], ExecuteSteps) \subseteq Range(done_steps)
    /\ workflow = "destroy" =>
         /\ IsPrefix(ran, DestroySteps)
         /\ \A i \in 1..Len(ran) : Before(ran[i], DestroySteps) \subseteq Range(done_steps)

C9_Witness ==
    /\ Ended
    /\ workflow = "execute"
    /\ ran = ExecuteCommands
    /\ failed_step = OUTPUT

\* C10: in a destroy workflow that ran DESTROY, a successful run leaves
\* destroy status DESTROY_PASSED and last live status "Offline"; a failed run
\* leaves DESTROY_FAILED and "Error", and the workflow has ended by raising the error.
C10_DestroyOutcome ==
    (workflow = "destroy" /\ DESTROY \in Range(ran))
    => IF DESTROY \in Range(done_steps)
       THEN /\ destroy_status = DESTROY_PASSED
            /\ Last(live) = "Offline"
       ELSE /\ destroy_status = DESTROY_FAILED
            /\ Last(live) = "Error"
            /\ pc = "idle"
            /\ raised = "TerraformExecutionError"
            /\ failed_step = DESTROY

C10_Witness ==
    /\ Ended
    /\ workflow = "destroy"
    /\ failed_step = DESTROY
    /\ start_status[2] = DESTROY_PASSED
    /\ destroy_status = DESTROY_FAILED

\* C11: when the subprocess of a loggable command exits 0 and the write of its
\* transcript to the execution log raises, the step still counts as
\* successful: it is among the steps done, it is not the step that failed and
\* no "Error" live status was reported for it.
C11_LogFailureNotFatal ==
    (last_run.outcome = "exit0" /\ last_run.log_write = "raises")
    => (/\ last_run.command \in Range(done_steps)
        /\ failed_step # last_run.command
        /\ Last(live) # "Error")

\* C12: a call of the process runner whose subprocess exits 0 returns the
\* captured output and raises nothing; a call whose subprocess exits non-zero
\* raises TerraformExecutionError with the sanitized captured output as its
\* detail; for every command.
C12_RunnerResult ==
    /\ proc_result.outcome = "exit0" =>
          (proc_result.returned = output /\ proc_result.raised = "none")
    /\ proc_result.outcome = "nonzero" =>
          (/\ proc_result.raised = "TerraformExecutionError"
           /\ proc_result.detail = Clean(output)
           /\ proc_result.returned = <<"none">>)

\* OUTPUT, the command that is not logged, exits non-zero on a text with an escape sequence
C12_Witness ==
    /\ proc_result.command = OUTPUT
    /\ proc_result.outcome = "nonzero"
    /\ output = <<"n", ESC, "[", "m">>
    /\ proc_result.detail = <<"n">>

\* C13: removing the escape sequences of a text twice gives the same text as
\* removing them once: the transcript a call writes to the execution log (the
\* output cleaned by the runner, cleaned again by the log writer) is the
\* output cleaned once.
C13_CleanIdempotent ==
    proc_result.log_data # <<"none">> => proc_result.log_data = Clean(output)

\* C14: when the TAG step merges tags, a merge of at most 50 keys is handed to
\* the tagging with the default tag's value on every key both sets have; a
\* merge of 51 keys or more raises ValueError out of the TAG step, nothing is
\* tagged and neither PLAN nor APPLY runs.
C14_TagMerge ==
    tag_inputs # NoTags =>
      LET custom == tag_inputs[1]
          default == tag_inputs[2]
          keys == (DOMAIN custom) \cup (DOMAIN default)
      IN  IF Cardinality(keys) <= 50
          THEN /\ tagged
               /\ DOMAIN tags_dict = keys
               /\ \A k \in keys :
                    tags_dict[k] = IF k \in DOMAIN default THEN default[k] ELSE custom[k]
               /\ raised # "ValueError"
          ELSE /\ ~tagged
               /\ tags_dict = NoTags
               /\ pc = "idle"
               /\ failed_step = TAG
               /\ raised = "ValueError"
               /\ PLAN \notin Range(ran)
               /\ APPLY \notin Range(ran)

\* 50 keys after a collision on key 49: accepted, the default value on key 49
C14_Witness ==
    /\ tagged
    /\ tag_inputs # NoTags
    /\ 49 \in DOMAIN tag_inputs[1]
    /\ 49 \in DOMAIN tag_inputs[2]
    /\ Cardinality(DOMAIN tags_dict) = 50
    /\ tags_dict[49] = "default"
    /\ PLAN \in Range(done_steps)

\* C15: a destroy workflow started with no remote state provider and no
\* existing working directory downloads nothing, runs no command, changes no
\* status and ends by raising ValueError out of the validation.
C15_DestroyNeedsDirOrBackend ==
    (workflow = "destroy" /\ ~UsingRemoteState /\ ~start_dir)
    => (/\ ~downloaded
        /\ ran = <<>>
        /\ <<execute_status, destroy_status>> = start_status
        /\ pc \in {"d_validate", "idle"}
        /\ (pc = "idle" => (raised = "ValueError" /\ failed_step = "validate")))

C15_Witness ==
    /\ Ended
    /\ workflow = "destroy"
    /\ ~UsingRemoteState
    /\ ~start_dir
    /\ raised = "ValueError"
    /\ failed_step = "validate"

\* C16: when a destroy workflow that ran DESTROY has ended and a remote state
\* provider is set or DESTROY succeeded, the working directory is gone and the
\* stored path is cleared.
C16_DestroyCleansUp ==
    (/\ Ended
     /\ workflow = "destroy"
     /\ DESTROY \in Range(ran)
     /\ (UsingRemoteState \/ DESTROY \in Range(done_steps)))
    => (tf_working_dir = "" /\ ~dir_exists)

\* C17: when no remote state provider is set, the INIT step runs the INIT
\* command and does not fail on the missing backend configuration.
C17_InitWithoutBackend ==
    (/\ workflow # "none"
     /\ ~UsingRemoteState
     /\ (failed_step = INIT \/ pc \in {"e_tag", "d_destroy"}))
    => (INIT \in Range(ran) /\ raised # "AttributeError")

C19_FailedLikeApplyFailed ==
    execute_status \in {INIT_FAILED, PLAN_FAILED}
    => (/\ CanExecuteRun(execute_status, destroy_status)
             = CanExecuteRun(APPLY_FAILED, destroy_status)
        /\ CanDestroyRun(execute_status) = CanDestroyRun(APPLY_FAILED))

\* C19 amended: for INIT_FAILED and PLAN_FAILED can_execute_run is true and
\* can_destroy_run is false whatever the destroy status (as for NONE), where
\* for APPLY_FAILED they are false and true; an execute workflow started in
\* INIT_FAILED or PLAN_FAILED is not refused, a destroy workflow runs no command.
C19_FailedInitPlanLikeNone ==
    /\ execute_status \in {INIT_FAILED, PLAN_FAILED}
         => (/\ CanExecuteRun(execute_status, destroy_status) = TRUE
             /\ CanDestroyRun(execute_status) = FALSE
             /\ CanExecuteRun(APPLY_FAILED, destroy_status) = FALSE
             /\ CanDestroyRun(APPLY_FAILED) = TRUE)
    /\ (workflow = "execute" /\ start_status[1] \in {INIT_FAILED, PLAN_FAILED})
         => failed_step # "gate"
    /\ (workflow = "destroy" /\ start_status[1] \in {INIT_FAILED, PLAN_FAILED})
         => (ran = <<>> /\ pc \in {"d_validate", "d_prepare", "d_gate", "idle"})

C19_Witness ==
    /\ workflow = "execute"
    /\ start_status = <<INIT_FAILED, DESTROY_FAILED>>
    /\ pc = "e_init"

\* C20: an execute workflow started when can_execute_run is false runs no
\* command, leaves both statuses as they were and ends by raising.
C20_ExecuteRefused ==
    (workflow = "execute" /\ ~CanExecuteRun(start_status[1], start_status[2]))
    => (/\ ran = <<>>
        /\ <<execute_status, destroy_status>> = start_status
        /\ pc \in {"e_prepare", "e_gate", "idle"}
        /\ (pc = "idle" => raised # "none"))

C20_Witness ==
    /\ Ended
    /\ workflow = "execute"
    /\ start_status[1] = APPLY_FAILED
    /\ failed_step = "gate"
    /\ raised = "Exception"
    /\ ran = <<>>

\* C21: starting from NONE/NONE, the DESTROY command is run, and the steps
\* behind the destroy gate are entered, only in a sandbox where the APPLY
\* command has been run before, whatever its outcome.
C21_NoDestroyBeforeApply ==
    (DESTROY \in Range(ran) \/ pc \in {"d_init", "d_destroy", "d_cleanup"})
    => (apply_attempted /\ start_status[1] \in {APPLY_PASSED, APPLY_FAILED})

\* DESTROY run in a sandbox whose only APPLY failed
C21_Witness ==
    /\ DESTROY \in Range(ran)
    /\ apply_attempted
    /\ ~applied
    /\ start_status[1] = APPLY_FAILED

\* C22: when a destroy workflow started in execution status APPLY_FAILED has
\* ended with a successful DESTROY, can_execute_run is true.
C22_DestroyReopensExecute ==
    (/\ Ended
     /\ workflow = "destroy"
     /\ start_status[1] = APPLY_FAILED
     /\ DESTROY \in Range(done_steps))
    => CanExecuteRun(execute_status, destroy_status)

\* C23: between invocations, while a deployment exists (an APPLY has
\* succeeded and no DESTROY has succeeded since), can_destroy_run is true.
C23_DeployedCanBeDestroyed ==
    (pc = "idle" /\ deployed) => CanDestroyRun(execute_status)

\* C24: every run of the loop of _delete_local_temp_dir ends.
C24_WalkTerminates == (pc = "walk") ~> (pc = "idle")

====
